---- MODULE Spec2Model ----
(***************************************************************************)
(* A model of src/src/sched.py: the Mesos scheduler (MesosScheduler) that  *)
(* places one discovery task per host, collects telemetry, launches the   *)
(* worker services and hands the deployment to the Framework orchestrator, *)
(* and the executor agent (MesosExecutor) that runs on every slave.        *)
(*                                                                         *)
(*   Spec      the scheduler under a driver that delivers one callback at  *)
(*             a time, with any arguments the cluster can produce          *)
(*             (repeated offers, repeated status updates, any payload,     *)
(*             repeated acknowledgements, acknowledgements still queued    *)
(*             when the driver is stopped).                                *)
(*   AckSpec   Spec with the sender of every acknowledgement recorded.     *)
(*   LiveSpec  the scheduler together with the executor agents, under a    *)
(*             driver that delivers every status update and framework      *)
(*             message exactly once, with fair delivery.                   *)
(*   ConcSpec  the scheduler's callbacks run by several driver threads at  *)
(*             once, statement by statement: the class takes no lock.      *)
(***************************************************************************)
EXTENDS Integers, Sequences, FiniteSets, TLC

\* ------------------------------------------------------------------ bounds
MaxNExe == 2
NumHosts == 2
MaxOffers == 3
MaxBatch == 2
MaxUpdates == 3
NumThreads == 2
MaxCallbacks == 3
MaxLate == 1

\* ------------------------------------------------------------------ values
None == "None"

\* Worker.DEFAULT_PORT of the service module: the fixed well-known worker port.
DEFAULT_PORT == "9311"

\* The cluster: every slave runs on one host; two slaves share host 1.
NumSlaves == NumHosts + 1
SlaveIds == {<<"slave", k>> : k \in 1..NumSlaves}
HostnameOf(slave) == <<"host", ((slave[2] - 1) % NumHosts) + 1>>
Hostnames == {HostnameOf(s) : s \in SlaveIds}

\* executor.executor_id.value = uuid1().hex: one id for the whole framework.
EXECUTOR_ID == "uuid1"

\* str() of a task counter (the decimal numeral of a small natural).
Numerals == <<"0", "1", "2", "3", "4", "5", "6", "7", "8", "9">>
str(n) == Numerals[n + 1]

TaskStates == {"TASK_RUNNING", "TASK_FINISHED", "TASK_LOST", "TASK_FAILED", "TASK_KILLED"}

IpAddrs == {"10.0.0.5", "10.0.0.6"}

\* json.dumps / json.loads: a serialized document carries the object it was
\* made from; any other byte string does not parse.
dumps(obj) == [fmt |-> "json", obj |-> obj]
Garbage == [fmt |-> "bytes", obj |-> [k \in {} |-> ""]]
\* The text a TASK_RUNNING update carries ("running discovery task").
ProgressNote == Garbage
Parses(data) == data.fmt = "json"
loads(data) == data.obj

\* The payloads a status update can carry: telemetry with an ip_addr, a JSON
\* document without one, or bytes that are not JSON.
Telemetry(ip) == [ip_addr |-> ip]
Payloads ==
    {dumps(Telemetry(ip)) : ip \in IpAddrs} \cup {dumps([hostname |-> "x"]), Garbage}

VARIABLES
    n_exe,              \* self._n_exe
    tasksLaunched,      \* self.tasksLaunched
    tasksFinished,      \* self.tasksFinished
    messagesSent,       \* self.messagesSent
    messagesReceived,   \* self.messagesReceived
    taskData,           \* self.taskData: task id -> (slave_id, executor_id)
    executors,          \* self._executors: hostname -> ExecutorInfo
    offered,            \* the offers delivered so far, in delivery order
    launchCalls,        \* driver.launchTasks calls, in call order
    fwSent,             \* driver.sendFrameworkMessage calls of the scheduler
    control,            \* Framework.orchestrate / driver.stop calls, in order
    proc,               \* "running", "stopped", "aborted", "exited"
    exitStatus,         \* the status the process exited with, or None
    thread,             \* executor side: task id -> position of its run_task thread
    statusSent,         \* executor side: task id -> status updates sent, in order
    statusDelivered,    \* task id -> how many of them the scheduler has been given
    execDelivered,      \* the launch-service messages (indices of fwSent) handled
    spawned,            \* executor side: slave -> argument lists given to Popen
    acksInFlight,       \* acknowledgements sent by executors and not yet delivered
    ackedSlaves,        \* slaves whose acknowledgement reached frameworkMessage (AckSpec, LiveSpec)
    cb,                 \* driver thread -> the callback it is in: position and locals
    cbStarted           \* the number of callbacks the driver threads have entered

schedVars == <<n_exe, tasksLaunched, tasksFinished, messagesSent, messagesReceived,
               taskData, executors, offered, launchCalls, fwSent, control, proc,
               exitStatus>>

agentVars == <<thread, statusSent, statusDelivered, execDelivered, spawned, acksInFlight,
               ackedSlaves>>

threadVars == <<cb, cbStarted>>

vars == <<schedVars, agentVars, threadVars>>

\* ------------------------------------------------------------------ helpers
Range(f) == {f[x] : x \in DOMAIN f}

\* dict assignment d[k] = v
Put(d, k, v) == [x \in (DOMAIN d) \cup {k} |-> IF x = k THEN v ELSE d[x]]

EmptyDict == [x \in {} |-> None]

RECURSIVE SeqsUpTo(_, _)
SeqsUpTo(S, n) ==
    IF n = 0 THEN {<<>>}
    ELSE LET shorter == SeqsUpTo(S, n - 1)
         IN shorter \cup {Append(q, x) : q \in {r \in shorter : Len(r) = n - 1}, x \in S}

\* ------------------------------------------------------------------ scheduler

\* MesosScheduler.__init__
SchedInit ==
    /\ n_exe \in 1..MaxNExe
    /\ tasksLaunched = 0
    /\ tasksFinished = 0
    /\ messagesSent = 0
    /\ messagesReceived = 0
    /\ taskData = EmptyDict
    /\ executors = EmptyDict

\* service.ExecutorInfo(offer, task): the record of one accepted offer; its
\* IP address and port are unset until the discovery task reports.
ExecutorInfo(offer, task) ==
    [host |-> offer.hostname, slave_id |-> offer.slave_id, task_id |-> task.task_id,
     executor_id |-> task.executor_id, ip_addr |-> None, port |-> None]

\* Mutants of AcceptOffer: the quota test dropped; the host test dropped.
AcceptOffer_NoQuota(launched, limit, exes, offer) ==
    offer.hostname \notin DOMAIN exes

AcceptOffer_NoHostCheck(launched, limit, exes, offer) ==
    launched < limit

\* The test of resourceOffers that accepts an offer.
AcceptOffer(launched, limit, exes, offer) ==
    launched < limit /\ offer.hostname \notin DOMAIN exes

\* Mutant of TaskInfo: the task is named after its offer.
TaskInfo_IdFromOffer(tid, offer) ==
    [task_id |-> str(offer.id), slave_id |-> offer.slave_id, executor_id |-> EXECUTOR_ID]

\* The mesos_pb2.TaskInfo built for an accepted offer.
TaskInfo(tid, offer) ==
    [task_id |-> str(tid), slave_id |-> offer.slave_id, executor_id |-> EXECUTOR_ID]

\* Mutant of OfferStep: launchTasks is called for accepted offers only.
OfferStep_SilentDecline(st, offer) ==
    IF AcceptOffer(st.tasksLaunched, st.n_exe, st.executors, offer)
    THEN LET tid == st.tasksLaunched
             task == TaskInfo(tid, offer)
         IN [st EXCEPT
                !.tasksLaunched = tid + 1,
                !.taskData = Put(st.taskData, task.task_id, <<offer.slave_id, task.executor_id>>),
                !.executors = Put(st.executors, offer.hostname, ExecutorInfo(offer, task)),
                !.launchCalls = Append(st.launchCalls, [offer_id |-> offer.id, tasks |-> <<task>>])]
    ELSE st

\* One iteration of the loop of resourceOffers on the scheduler state st.
OfferStep(st, offer) ==
    IF AcceptOffer(st.tasksLaunched, st.n_exe, st.executors, offer)
    THEN LET tid == st.tasksLaunched
             task == TaskInfo(tid, offer)
         IN [st EXCEPT
                !.tasksLaunched = tid + 1,
                !.taskData = Put(st.taskData, task.task_id, <<offer.slave_id, task.executor_id>>),
                !.executors = Put(st.executors, offer.hostname, ExecutorInfo(offer, task)),
                !.launchCalls = Append(st.launchCalls, [offer_id |-> offer.id, tasks |-> <<task>>])]
    ELSE [st EXCEPT
                !.launchCalls = Append(st.launchCalls, [offer_id |-> offer.id, tasks |-> <<>>])]

\* The loop of resourceOffers over a batch, in delivery order.
RECURSIVE OfferLoop(_, _)
OfferLoop(st, offers) ==
    IF offers = <<>> THEN st
    ELSE OfferLoop(OfferStep(st, Head(offers)), Tail(offers))

\* The master numbers the offers it makes; an offer is for one slave.
MkOffers(slaves, base) ==
    [i \in 1..Len(slaves) |->
        [id |-> base + i, hostname |-> HostnameOf(slaves[i]), slave_id |-> slaves[i]]]

\* MesosScheduler.resourceOffers(driver, offers)
resourceOffers(offers) ==
    LET st == OfferLoop([n_exe |-> n_exe, tasksLaunched |-> tasksLaunched,
                         taskData |-> taskData, executors |-> executors,
                         launchCalls |-> launchCalls], offers)
    IN /\ tasksLaunched' = st.tasksLaunched
       /\ taskData' = st.taskData
       /\ executors' = st.executors
       /\ launchCalls' = st.launchCalls
       /\ offered' = offered \o offers
       /\ UNCHANGED <<n_exe, tasksFinished, messagesSent, messagesReceived, fwSent,
                      control, proc, exitStatus>>

\* An exception that leaves a scheduler callback: the driver aborts, and
\* delivers no further callback.
Raise == proc' = "aborted" /\ exitStatus' = exitStatus

\* Mutant of lookup_executor: the scan returns the first record, whatever its
\* slave_id.
lookup_executor_Any(exes, slave_id, executor_id) == DOMAIN exes

\* MesosScheduler.lookup_executor(slave_id, executor_id): the scan returns the
\* first record, in the dict's iteration order, whose slave_id matches; the
\* result is one of these hostnames' records, or None when the set is empty.
lookup_executor(exes, slave_id, executor_id) ==
    {h \in DOMAIN exes : exes[h].slave_id = slave_id}

\* The launch-service message of statusUpdate: dumps([exe_path, "-p", port]).
EXE_PATH == "exe_path"
LaunchMessage(port) == dumps(<<EXE_PATH, "-p", port>>)

\* Mutant of StatusFinished: the increment of messagesSent is left out.
StatusFinished_NoCount(task_id, data) ==
    IF task_id \notin DOMAIN taskData
    THEN /\ Raise
         /\ UNCHANGED <<messagesSent, executors, fwSent>>
    ELSE LET slave_id == taskData[task_id][1]
             executor_id == taskData[task_id][2]
             telemetry == loads(data)
             found == lookup_executor(executors, slave_id, executor_id)
         IN /\ messagesSent' = messagesSent
            /\ IF ~Parses(data) \/ "ip_addr" \notin DOMAIN telemetry \/ found = {}
               THEN /\ Raise
                    /\ UNCHANGED <<executors, fwSent>>
               ELSE \E h \in found :
                    /\ executors' = [executors EXCEPT
                                        ![h].ip_addr = telemetry.ip_addr,
                                        ![h].port = DEFAULT_PORT]
                    /\ fwSent' = Append(fwSent,
                                    [executor_id |-> executor_id, slave_id |-> slave_id,
                                     message |-> LaunchMessage(executors'[h].port)])
                    /\ UNCHANGED <<proc, exitStatus>>

\* The body of statusUpdate for a TASK_FINISHED update, after the counter
\* tasksFinished was incremented.
StatusFinished(task_id, data) ==
    IF task_id \notin DOMAIN taskData
    THEN \* KeyError at self.taskData[...]
         /\ Raise
         /\ UNCHANGED <<messagesSent, executors, fwSent>>
    ELSE LET slave_id == taskData[task_id][1]
             executor_id == taskData[task_id][2]
             telemetry == loads(data)
             found == lookup_executor(executors, slave_id, executor_id)
         IN /\ messagesSent' = messagesSent + 1
            /\ IF ~Parses(data)
               THEN \* ValueError in loads
                    /\ Raise
                    /\ UNCHANGED <<executors, fwSent>>
               ELSE IF "ip_addr" \notin DOMAIN telemetry \/ found = {}
               THEN \* KeyError at telemetry["ip_addr"], or AttributeError on None
                    /\ Raise
                    /\ UNCHANGED <<executors, fwSent>>
               ELSE \E h \in found :
                    /\ executors' = [executors EXCEPT
                                        ![h].ip_addr = telemetry.ip_addr,
                                        ![h].port = DEFAULT_PORT]
                    /\ fwSent' = Append(fwSent,
                                    [executor_id |-> executor_id, slave_id |-> slave_id,
                                     message |-> LaunchMessage(executors'[h].port)])
                    /\ UNCHANGED <<proc, exitStatus>>

\* Mutant of statusUpdate: tasksFinished is incremented before the test of
\* the state.
statusUpdate_CountsEveryState(task_id, state, data) ==
    /\ tasksFinished' = tasksFinished + 1
    /\ IF state = "TASK_FINISHED"
       THEN StatusFinished(task_id, data)
       ELSE UNCHANGED <<messagesSent, executors, fwSent, proc, exitStatus>>
    /\ UNCHANGED <<n_exe, tasksLaunched, messagesReceived, taskData, offered,
                   launchCalls, control>>

\* MesosScheduler.statusUpdate(driver, update)
statusUpdate(task_id, state, data) ==
    IF state = "TASK_FINISHED"
    THEN /\ tasksFinished' = tasksFinished + 1
         /\ StatusFinished(task_id, data)
         /\ UNCHANGED <<n_exe, tasksLaunched, messagesReceived, taskData, offered,
                        launchCalls, control>>
    ELSE UNCHANGED schedVars

\* service.ExecutorInfo.get_exe_uri(): the service URI derived from a record.
get_exe_uri(exe) == <<exe.ip_addr, exe.port>>

\* Mutant of AtCheckpoint: every acknowledgement from the n_exe-th on passes.
AtCheckpoint_AtLeast(received, limit) == received >= limit

\* Mutant of AtCheckpoint: the checkpoint is one acknowledgement late.
AtCheckpoint_OffByOne(received, limit) == received = limit + 1

\* The checkpoint of frameworkMessage: all n_exe acknowledgements are in.
AtCheckpoint(received, limit) == received = limit

\* Mutants of Mismatch: the test dropped; only an excess of acknowledgements
\* is fatal.
Mismatch_Ignored(received, sent) == FALSE

Mismatch_OnlyExcess(received, sent) == received > sent

\* The fatal test of frameworkMessage at the checkpoint.
Mismatch(received, sent) == received # sent

\* Mutant of Handoff: the driver is stopped before the orchestration runs.
Handoff_StopFirst(exes) ==
    <<[op |-> "stop", by |-> "frameworkMessage", exe_list |-> EmptyDict],
      [op |-> "orchestrate", by |-> "frameworkMessage",
       exe_list |-> [h \in DOMAIN exes |-> <<exes[h].ip_addr, exes[h].port>>]]>>

\* The calls frameworkMessage makes once the deployment is complete: the
\* orchestration runs to completion, then the driver is told to stop.
Handoff(exes) ==
    <<[op |-> "orchestrate", by |-> "frameworkMessage",
       exe_list |-> [h \in DOMAIN exes |-> get_exe_uri(exes[h])]],
      [op |-> "stop", by |-> "frameworkMessage", exe_list |-> EmptyDict]>>

\* MesosScheduler.frameworkMessage(driver, executorId, slaveId, message)
frameworkMessage(executorId, slaveId, message) ==
    /\ messagesReceived' = messagesReceived + 1
    /\ IF AtCheckpoint(messagesReceived', n_exe)
       THEN IF Mismatch(messagesReceived', messagesSent)
            THEN \* sys.exit(1)
                 /\ proc' = "exited"
                 /\ exitStatus' = 1
                 /\ UNCHANGED control
            ELSE /\ control' = control \o Handoff(executors)
                 /\ proc' = "stopped"
                 /\ UNCHANGED exitStatus
       ELSE UNCHANGED <<control, proc, exitStatus>>
    /\ UNCHANGED <<n_exe, tasksLaunched, tasksFinished, messagesSent, taskData,
                   executors, offered, launchCalls, fwSent>>

\* MesosScheduler.stop_framework(driver): driver.run() has returned; the
\* status is 0 after a clean stop and 1 otherwise; stop the driver and exit.
stop_framework ==
    /\ control' = Append(control, [op |-> "stop", by |-> "stop_framework",
                                   exe_list |-> EmptyDict])
    /\ exitStatus' = IF proc = "stopped" THEN 0 ELSE 1
    /\ proc' = "exited"
    /\ UNCHANGED <<n_exe, tasksLaunched, tasksFinished, messagesSent, messagesReceived,
                   taskData, executors, offered, launchCalls, fwSent>>

\* ------------------------------------------------------------------ threads

Threads == 1..NumThreads

NoOffer == [id |-> 0, hostname |-> <<"host", 0>>, slave_id |-> <<"slave", 0>>]

\* A driver thread that is in no callback.
Idle == [pc |-> "idle", offer |-> NoOffer, tasks |-> <<>>, tid |-> 0, tmp |-> 0,
         task_id |-> "", data |-> Garbage, slave_id |-> <<"slave", 0>>]

\* ------------------------------------------------------------------ the driver

Init ==
    /\ SchedInit
    /\ offered = <<>>
    /\ launchCalls = <<>>
    /\ fwSent = <<>>
    /\ control = <<>>
    /\ proc = "running"
    /\ exitStatus = None
    /\ thread = EmptyDict
    /\ statusSent = EmptyDict
    /\ statusDelivered = EmptyDict
    /\ execDelivered = {}
    /\ spawned = EmptyDict
    /\ acksInFlight = {}
    /\ ackedSlaves = {}
    /\ cb = [i \in Threads |-> Idle]
    /\ cbStarted = 0

\* The driver delivers a batch of offers.
ResourceOffers ==
    /\ proc = "running"
    /\ \E slaves \in SeqsUpTo(SlaveIds, MaxBatch) :
        /\ Len(offered) + Len(slaves) <= MaxOffers
        /\ resourceOffers(MkOffers(slaves, Len(offered)))
    /\ UNCHANGED <<agentVars, threadVars>>

\* The driver delivers a status update for a task the scheduler launched: any
\* state, any payload, and (status updates are retried until acknowledged)
\* any number of times.
StatusUpdate ==
    /\ proc = "running"
    /\ \E task_id \in DOMAIN taskData, state \in TaskStates, data \in Payloads :
        /\ state = "TASK_FINISHED" => tasksFinished < MaxUpdates
        /\ state # "TASK_FINISHED" => data = ProgressNote
        /\ statusUpdate(task_id, state, data)
    /\ UNCHANGED <<agentVars, threadVars>>

\* The driver delivers a message of an executor: the acknowledgement of a
\* launch-service message, possibly more than once.
FrameworkMessage ==
    /\ proc = "running"
    /\ \E m \in Range(fwSent) :
        frameworkMessage(m.executor_id, m.slave_id, "service launched")
    /\ UNCHANGED <<agentVars, threadVars>>

\* An acknowledgement the driver had already queued when frameworkMessage
\* called driver.stop() is still delivered, until driver.run() returns.
LateFrameworkMessage ==
    /\ proc = "stopped"
    /\ messagesReceived < n_exe + MaxLate
    /\ \E m \in Range(fwSent) :
        frameworkMessage(m.executor_id, m.slave_id, "service launched")
    /\ UNCHANGED <<agentVars, threadVars>>

\* driver.run() returns once the driver was stopped or has aborted.
StopFramework ==
    /\ proc \in {"stopped", "aborted"}
    /\ stop_framework
    /\ UNCHANGED <<agentVars, threadVars>>

Next ==
    \/ ResourceOffers
    \/ StatusUpdate
    \/ FrameworkMessage
    \/ LateFrameworkMessage
    \/ StopFramework

Spec == Init /\ [][Next]_vars

\* ------------------------------------------------------------------ the sender of each acknowledgement

\* Offers, status updates and the return of driver.run(), as in Spec.
AckOffers == ResourceOffers

AckStatusUpdate == StatusUpdate

\* As FrameworkMessage, and the slave the acknowledgement came from is
\* recorded.
AckFrameworkMessage ==
    /\ proc = "running"
    /\ \E m \in Range(fwSent) :
        /\ frameworkMessage(m.executor_id, m.slave_id, "service launched")
        /\ ackedSlaves' = ackedSlaves \cup {m.slave_id}
    /\ UNCHANGED <<thread, statusSent, statusDelivered, execDelivered, spawned, acksInFlight,
                   threadVars>>

AckStop == StopFramework

AckNext ==
    \/ AckOffers
    \/ AckStatusUpdate
    \/ AckFrameworkMessage
    \/ AckStop

AckSpec == Init /\ [][AckNext]_vars

\* ------------------------------------------------------------------ executor

\* The tasks the scheduler has handed to the driver with launchTasks.
LaunchedTasks == {launchCalls[i].tasks[1] : i \in {k \in DOMAIN launchCalls : launchCalls[k].tasks # <<>>}}

\* MesosExecutor.launchTask(driver, task): starts the run_task thread and
\* returns.
launchTask(task) ==
    /\ thread' = Put(thread, task.task_id, "started")
    /\ statusSent' = Put(statusSent, task.task_id, <<>>)
    /\ statusDelivered' = Put(statusDelivered, task.task_id, 0)
    /\ UNCHANGED <<execDelivered, spawned, acksInFlight, ackedSlaves>>

\* run_task, first half: the TASK_RUNNING update.
run_task_running(task_id) ==
    /\ thread' = [thread EXCEPT ![task_id] = "running"]
    /\ statusSent' = [statusSent EXCEPT ![task_id] =
                        Append(@, [task_id |-> task_id, state |-> "TASK_RUNNING",
                                   data |-> ProgressNote])]
    /\ UNCHANGED <<statusDelivered, execDelivered, spawned, acksInFlight, ackedSlaves>>

\* The IP address of a slave's host.
HostIp(slave) ==
    IF HostnameOf(slave)[2] % 2 = 1 THEN "10.0.0.5" ELSE "10.0.0.6"

\* get_telemetry() on the executor of a slave: the telemetry with the IP
\* address of its host.
get_telemetry(slave) == Telemetry(HostIp(slave))

\* run_task, second half: the TASK_FINISHED update with the telemetry.
run_task_finished(task_id, slave) ==
    /\ thread' = [thread EXCEPT ![task_id] = "finished"]
    /\ statusSent' = [statusSent EXCEPT ![task_id] =
                        Append(@, [task_id |-> task_id, state |-> "TASK_FINISHED",
                                   data |-> dumps(get_telemetry(slave))])]
    /\ UNCHANGED <<statusDelivered, execDelivered, spawned, acksInFlight, ackedSlaves>>

\* run_task when the call of get_telemetry raises: the name is neither
\* defined nor imported in sched.py, so the call succeeds only if the name is
\* bound from outside the module; otherwise the thread ends on a NameError
\* after the TASK_RUNNING update.
run_task_raises(task_id) ==
    /\ thread' = [thread EXCEPT ![task_id] = "died"]
    /\ UNCHANGED <<statusSent, statusDelivered, execDelivered, spawned, acksInFlight,
                   ackedSlaves>>

\* MesosExecutor.frameworkMessage(driver, message) on the executor of a
\* slave: spawn the worker service, acknowledge. k is the message's place in
\* fwSent.
execFrameworkMessage(k) ==
    LET slave == fwSent[k].slave_id
        args == loads(fwSent[k].message)
    IN /\ spawned' = Put(spawned, slave,
                        Append(IF slave \in DOMAIN spawned THEN spawned[slave] ELSE <<>>, args))
       /\ acksInFlight' = acksInFlight \cup
                            {[k |-> k, executor_id |-> fwSent[k].executor_id,
                              slave_id |-> slave, message |-> "service launched"]}
       /\ execDelivered' = execDelivered \cup {k}
       /\ UNCHANGED <<thread, statusSent, statusDelivered, ackedSlaves>>

\* ------------------------------------------------------------------ the reliable driver

\* Offers, as in Spec.
LiveOffers == ResourceOffers

\* The driver gives a launched task to the executor of its slave.
LiveLaunchTask ==
    /\ proc = "running"
    /\ \E task \in LaunchedTasks :
        /\ task.task_id \notin DOMAIN thread
        /\ launchTask(task)
    /\ UNCHANGED <<schedVars, threadVars>>

LiveRunning(task_id) ==
    /\ proc = "running"
    /\ task_id \in DOMAIN thread
    /\ thread[task_id] = "started"
    /\ run_task_running(task_id)
    /\ UNCHANGED <<schedVars, threadVars>>

LiveFinished(task_id) ==
    /\ proc = "running"
    /\ task_id \in DOMAIN thread
    /\ thread[task_id] = "running"
    /\ \E task \in LaunchedTasks :
        /\ task.task_id = task_id
        /\ run_task_finished(task_id, task.slave_id)
    /\ UNCHANGED <<schedVars, threadVars>>

LiveThreadDies ==
    /\ proc = "running"
    /\ \E task_id \in DOMAIN thread :
        /\ thread[task_id] = "running"
        /\ run_task_raises(task_id)
    /\ UNCHANGED <<schedVars, threadVars>>

\* The driver delivers the next status update of a task, once, in the order
\* the executor sent them.
LiveStatusUpdate(task_id) ==
    /\ proc = "running"
    /\ task_id \in DOMAIN statusSent
    /\ statusDelivered[task_id] < Len(statusSent[task_id])
    /\ LET update == statusSent[task_id][statusDelivered[task_id] + 1]
       IN statusUpdate(update.task_id, update.state, update.data)
    /\ statusDelivered' = [statusDelivered EXCEPT ![task_id] = @ + 1]
    /\ UNCHANGED <<thread, statusSent, execDelivered, spawned, acksInFlight, ackedSlaves,
                   threadVars>>

\* The driver delivers a launch-service message to its executor, once.
LiveExecMessage(k) ==
    /\ proc = "running"
    /\ k \in DOMAIN fwSent
    /\ k \notin execDelivered
    /\ execFrameworkMessage(k)
    /\ UNCHANGED <<schedVars, threadVars>>

\* The driver delivers an acknowledgement to the scheduler, once.
LiveAck(k) ==
    /\ proc = "running"
    /\ \E a \in acksInFlight :
        /\ a.k = k
        /\ frameworkMessage(a.executor_id, a.slave_id, a.message)
        /\ acksInFlight' = acksInFlight \ {a}
        /\ ackedSlaves' = ackedSlaves \cup {a.slave_id}
    /\ UNCHANGED <<thread, statusSent, statusDelivered, execDelivered, spawned, threadVars>>

LiveStop == StopFramework

TaskIds == {str(n) : n \in 0..(MaxNExe - 1)}
MessageIds == 1..MaxNExe

LiveNext ==
    \/ LiveOffers
    \/ LiveLaunchTask
    \/ \E t \in TaskIds : LiveRunning(t)
    \/ \E t \in TaskIds : LiveFinished(t)
    \/ LiveThreadDies
    \/ \E t \in TaskIds : LiveStatusUpdate(t)
    \/ \E k \in MessageIds : LiveExecMessage(k)
    \/ \E k \in MessageIds : LiveAck(k)
    \/ LiveStop

\* Threads run, and the driver delivers what was sent: launched tasks reach
\* their executor, status updates and framework messages reach their
\* destination, and driver.run() returns after the stop.
LiveFairness ==
    /\ WF_vars(LiveLaunchTask)
    /\ \A t \in TaskIds : WF_vars(LiveRunning(t))
    /\ \A t \in TaskIds : WF_vars(LiveFinished(t))
    /\ \A t \in TaskIds : WF_vars(LiveStatusUpdate(t))
    /\ \A k \in MessageIds : WF_vars(LiveExecMessage(k))
    /\ \A k \in MessageIds : WF_vars(LiveAck(k))
    /\ WF_vars(LiveStop)

LiveSpec == Init /\ [][LiveNext]_vars /\ LiveFairness

\* ------------------------------------------------------------------ concurrent callbacks
\* The callbacks as the interpreter runs them when driver threads call them
\* at once: one action per statement, and two (the load, the store) for each
\* "+= 1" on a counter. The positions are named after the source lines.

At(i, pc) == proc = "running" /\ cb[i].pc = pc
Goto(i, rec) == cb' = [cb EXCEPT ![i] = rec]

\* A thread enters resourceOffers with a batch of one offer.
ConcEnterOffers(i) ==
    /\ At(i, "idle")
    /\ cbStarted < MaxCallbacks
    /\ Len(offered) < MaxOffers
    /\ \E slave \in SlaveIds :
        LET offer == MkOffers(<<slave>>, Len(offered))[1]
        IN /\ offered' = Append(offered, offer)
           /\ Goto(i, [Idle EXCEPT !.pc = "line96", !.offer = offer])
    /\ cbStarted' = cbStarted + 1
    /\ UNCHANGED <<n_exe, tasksLaunched, tasksFinished, messagesSent, messagesReceived,
                   taskData, executors, launchCalls, fwSent, control, proc, exitStatus,
                   agentVars>>

\* line 96: the test.
ConcLine96(i) ==
    /\ At(i, "line96")
    /\ IF AcceptOffer(tasksLaunched, n_exe, executors, cb[i].offer)
       THEN Goto(i, [cb[i] EXCEPT !.pc = "line97"])
       ELSE Goto(i, [cb[i] EXCEPT !.pc = "line127"])
    /\ UNCHANGED <<schedVars, agentVars, cbStarted>>

\* line 97: tid = self.tasksLaunched
ConcLine97(i) ==
    /\ At(i, "line97")
    /\ Goto(i, [cb[i] EXCEPT !.pc = "line98", !.tid = tasksLaunched])
    /\ UNCHANGED <<schedVars, agentVars, cbStarted>>

\* line 98: self.tasksLaunched += 1, the load.
ConcLine98(i) ==
    /\ At(i, "line98")
    /\ Goto(i, [cb[i] EXCEPT !.pc = "line98_store", !.tmp = tasksLaunched])
    /\ UNCHANGED <<schedVars, agentVars, cbStarted>>

\* line 98, the store; lines 101-117 build the task.
ConcLine98Store(i) ==
    /\ At(i, "line98_store")
    /\ tasksLaunched' = cb[i].tmp + 1
    /\ Goto(i, [cb[i] EXCEPT !.pc = "line118",
                             !.tasks = <<TaskInfo(cb[i].tid, cb[i].offer)>>])
    /\ UNCHANGED <<n_exe, tasksFinished, messagesSent, messagesReceived, taskData,
                   executors, offered, launchCalls, fwSent, control, proc, exitStatus,
                   agentVars, cbStarted>>

\* line 118: self.taskData[task.task_id.value] = ...
ConcLine118(i) ==
    /\ At(i, "line118")
    /\ taskData' = Put(taskData, cb[i].tasks[1].task_id,
                       <<cb[i].offer.slave_id, cb[i].tasks[1].executor_id>>)
    /\ Goto(i, [cb[i] EXCEPT !.pc = "line121"])
    /\ UNCHANGED <<n_exe, tasksLaunched, tasksFinished, messagesSent, messagesReceived,
                   executors, offered, launchCalls, fwSent, control, proc, exitStatus,
                   agentVars, cbStarted>>

\* line 121: self._executors[offer.hostname] = ExecutorInfo(offer, task)
ConcLine121(i) ==
    /\ At(i, "line121")
    /\ executors' = Put(executors, cb[i].offer.hostname,
                        ExecutorInfo(cb[i].offer, cb[i].tasks[1]))
    /\ Goto(i, [cb[i] EXCEPT !.pc = "line127"])
    /\ UNCHANGED <<n_exe, tasksLaunched, tasksFinished, messagesSent, messagesReceived,
                   taskData, offered, launchCalls, fwSent, control, proc, exitStatus,
                   agentVars, cbStarted>>

\* line 127: driver.launchTasks(offer.id, tasks); the batch ends.
ConcLine127(i) ==
    /\ At(i, "line127")
    /\ launchCalls' = Append(launchCalls,
                             [offer_id |-> cb[i].offer.id, tasks |-> cb[i].tasks])
    /\ Goto(i, Idle)
    /\ UNCHANGED <<n_exe, tasksLaunched, tasksFinished, messagesSent, messagesReceived,
                   taskData, executors, offered, fwSent, control, proc, exitStatus,
                   agentVars, cbStarted>>

\* A thread enters statusUpdate with a TASK_FINISHED update of a launched
\* task (an update in another state is only printed).
ConcEnterStatus(i) ==
    /\ At(i, "idle")
    /\ cbStarted < MaxCallbacks
    /\ \E task_id \in DOMAIN taskData, data \in Payloads :
        Goto(i, [Idle EXCEPT !.pc = "line146", !.task_id = task_id, !.data = data])
    /\ cbStarted' = cbStarted + 1
    /\ UNCHANGED <<schedVars, agentVars>>

\* line 146: self.tasksFinished += 1, the load.
ConcLine146(i) ==
    /\ At(i, "line146")
    /\ Goto(i, [cb[i] EXCEPT !.pc = "line146_store", !.tmp = tasksFinished])
    /\ UNCHANGED <<schedVars, agentVars, cbStarted>>

\* line 146, the store.
ConcLine146Store(i) ==
    /\ At(i, "line146_store")
    /\ tasksFinished' = cb[i].tmp + 1
    /\ Goto(i, [cb[i] EXCEPT !.pc = "line148"])
    /\ UNCHANGED <<n_exe, tasksLaunched, messagesSent, messagesReceived, taskData,
                   executors, offered, launchCalls, fwSent, control, proc, exitStatus,
                   agentVars, cbStarted>>

\* line 148: slave_id, executor_id = self.taskData[...]; line 149: the load
\* of self.messagesSent += 1.
ConcLine148(i) ==
    /\ At(i, "line148")
    /\ Goto(i, [cb[i] EXCEPT !.pc = "line149_store",
                             !.slave_id = taskData[cb[i].task_id][1],
                             !.tmp = messagesSent])
    /\ UNCHANGED <<schedVars, agentVars, cbStarted>>

\* line 149, the store.
ConcLine149Store(i) ==
    /\ At(i, "line149_store")
    /\ messagesSent' = cb[i].tmp + 1
    /\ Goto(i, [cb[i] EXCEPT !.pc = "line152"])
    /\ UNCHANGED <<n_exe, tasksLaunched, tasksFinished, messagesReceived, taskData,
                   executors, offered, launchCalls, fwSent, control, proc, exitStatus,
                   agentVars, cbStarted>>

\* lines 152-161: parse the telemetry, find the record, set its IP and port.
ConcLine152(i) ==
    /\ At(i, "line152")
    /\ LET telemetry == loads(cb[i].data)
           found == lookup_executor(executors, cb[i].slave_id, EXECUTOR_ID)
       IN IF ~Parses(cb[i].data) \/ "ip_addr" \notin DOMAIN telemetry \/ found = {}
          THEN /\ Raise
               /\ Goto(i, Idle)
               /\ UNCHANGED executors
          ELSE /\ \E h \in found :
                    executors' = [executors EXCEPT
                                    ![h].ip_addr = telemetry.ip_addr,
                                    ![h].port = DEFAULT_PORT]
               /\ Goto(i, [cb[i] EXCEPT !.pc = "line168"])
               /\ UNCHANGED <<proc, exitStatus>>
    /\ UNCHANGED <<n_exe, tasksLaunched, tasksFinished, messagesSent, messagesReceived,
                   taskData, offered, launchCalls, fwSent, control, agentVars, cbStarted>>

\* lines 167-168: send the launch-service message.
ConcLine168(i) ==
    /\ At(i, "line168")
    /\ fwSent' = Append(fwSent, [executor_id |-> EXECUTOR_ID, slave_id |-> cb[i].slave_id,
                                 message |-> LaunchMessage(DEFAULT_PORT)])
    /\ Goto(i, Idle)
    /\ UNCHANGED <<n_exe, tasksLaunched, tasksFinished, messagesSent, messagesReceived,
                   taskData, executors, offered, launchCalls, control, proc, exitStatus,
                   agentVars, cbStarted>>

\* A thread enters frameworkMessage with the acknowledgement of an executor.
ConcEnterMessage(i) ==
    /\ At(i, "idle")
    /\ cbStarted < MaxCallbacks
    /\ fwSent # <<>>
    /\ Goto(i, [Idle EXCEPT !.pc = "line178"])
    /\ cbStarted' = cbStarted + 1
    /\ UNCHANGED <<schedVars, agentVars>>

\* line 178: self.messagesReceived += 1, the load.
ConcLine178(i) ==
    /\ At(i, "line178")
    /\ Goto(i, [cb[i] EXCEPT !.pc = "line178_store", !.tmp = messagesReceived])
    /\ UNCHANGED <<schedVars, agentVars, cbStarted>>

\* line 178, the store.
ConcLine178Store(i) ==
    /\ At(i, "line178_store")
    /\ messagesReceived' = cb[i].tmp + 1
    /\ Goto(i, [cb[i] EXCEPT !.pc = "line183"])
    /\ UNCHANGED <<n_exe, tasksLaunched, tasksFinished, messagesSent, taskData,
                   executors, offered, launchCalls, fwSent, control, proc, exitStatus,
                   agentVars, cbStarted>>

\* lines 183-203: the checkpoint.
ConcLine183(i) ==
    /\ At(i, "line183")
    /\ IF AtCheckpoint(messagesReceived, n_exe)
       THEN IF Mismatch(messagesReceived, messagesSent)
            THEN /\ proc' = "exited"
                 /\ exitStatus' = 1
                 /\ UNCHANGED control
            ELSE /\ control' = control \o Handoff(executors)
                 /\ proc' = "stopped"
                 /\ UNCHANGED exitStatus
       ELSE UNCHANGED <<control, proc, exitStatus>>
    /\ Goto(i, Idle)
    /\ UNCHANGED <<n_exe, tasksLaunched, tasksFinished, messagesSent, messagesReceived,
                   taskData, executors, offered, launchCalls, fwSent, agentVars, cbStarted>>

ConcStop == StopFramework

ConcNext ==
    \/ \E i \in Threads : ConcEnterOffers(i)
    \/ \E i \in Threads : ConcLine96(i)
    \/ \E i \in Threads : ConcLine97(i)
    \/ \E i \in Threads : ConcLine98(i)
    \/ \E i \in Threads : ConcLine98Store(i)
    \/ \E i \in Threads : ConcLine118(i)
    \/ \E i \in Threads : ConcLine121(i)
    \/ \E i \in Threads : ConcLine127(i)
    \/ \E i \in Threads : ConcEnterStatus(i)
    \/ \E i \in Threads : ConcLine146(i)
    \/ \E i \in Threads : ConcLine146Store(i)
    \/ \E i \in Threads : ConcLine148(i)
    \/ \E i \in Threads : ConcLine149Store(i)
    \/ \E i \in Threads : ConcLine152(i)
    \/ \E i \in Threads : ConcLine168(i)
    \/ \E i \in Threads : ConcEnterMessage(i)
    \/ \E i \in Threads : ConcLine178(i)
    \/ \E i \in Threads : ConcLine178Store(i)
    \/ \E i \in Threads : ConcLine183(i)
    \/ ConcStop

ConcSpec == Init /\ [][ConcNext]_vars

\* ------------------------------------------------------------------ claims

\* The launchTasks calls that carried a task, among the first k calls.
AcceptedBefore(k) == {j \in 1..(k - 1) : launchCalls[j].tasks # <<>>}
Accepted == AcceptedBefore(Len(launchCalls) + 1)
Declined == DOMAIN launchCalls \ Accepted

\* C1: in every reachable state the number of tasks launched, counted by
\* tasksLaunched and by the launchTasks calls that carry a task, is at most
\* n_exe.
C1_LaunchedAtMostNExe ==
    /\ tasksLaunched <= n_exe
    /\ Cardinality(Accepted) <= n_exe
    /\ Cardinality(Accepted) = tasksLaunched

\* C1 witness: the quota is full and an offer of a host without a record was
\* declined for it.
C1_Witness ==
    /\ tasksLaunched = n_exe
    /\ \E i \in Declined : offered[i].hostname \notin DOMAIN executors

\* C2: no two launched tasks are bound to the same host: of the offers of one
\* host only the first can get a task, every later one is declined, and a
\* launched task is bound to the slave of its own offer.
C2_OneTaskPerHost ==
    /\ Len(launchCalls) = Len(offered)
    /\ \A i, j \in DOMAIN launchCalls :
        (i < j /\ offered[i].hostname = offered[j].hostname) => j \in Declined
    /\ \A i \in Accepted : launchCalls[i].tasks[1].slave_id = offered[i].slave_id

\* C2 witness: a host was offered twice while tasksLaunched < n_exe; the first
\* offer got a task and the second was declined.
C2_Witness ==
    /\ tasksLaunched < n_exe
    /\ \E i \in Accepted, j \in Declined :
        i < j /\ offered[i].hostname = offered[j].hostname

\* C3: tasksFinished <= tasksLaunched in every reachable state (the claim as
\* stated; a status update delivered twice breaks it).
C3_FinishedAtMostLaunched == tasksFinished <= tasksLaunched

Orchestrations == {i \in DOMAIN control : control[i].op = "orchestrate"}
StopsOfCallback ==
    {i \in DOMAIN control : control[i].op = "stop" /\ control[i].by = "frameworkMessage"}

\* C4: a step starts an orchestration if and only if it is a frameworkMessage
\* callback after whose increment messagesReceived = n_exe and
\* messagesReceived = messagesSent.
C4_OrchestrateIff ==
    [][ (Orchestrations' # Orchestrations)
        <=> (/\ messagesReceived' = messagesReceived + 1
             /\ messagesReceived' = n_exe
             /\ messagesReceived' = messagesSent') ]_vars

\* C4 witness: an orchestration was started, with all n_exe messages sent and
\* acknowledged.
C4_Witness ==
    /\ Orchestrations # {}
    /\ messagesReceived = n_exe
    /\ messagesSent = n_exe

\* C5: a frameworkMessage callback that brings messagesReceived to n_exe
\* while messagesReceived # messagesSent exits the process with status 1 in
\* that callback; no orchestrate or stop call was made before it, none is
\* made by it, and nothing happens after the exit.
C5_FatalMismatch ==
    [][ /\ (/\ messagesReceived' = messagesReceived + 1
            /\ messagesReceived' = n_exe
            /\ messagesReceived' # messagesSent')
           => (proc' = "exited" /\ exitStatus' = 1 /\ control = <<>> /\ control' = <<>>)
        /\ proc = "exited" => control' = control ]_vars

\* C5 witness: the process exited with status 1 at the checkpoint, with the
\* counters unequal and no orchestrate or stop call made.
C5_Witness ==
    /\ proc = "exited"
    /\ exitStatus = 1
    /\ control = <<>>
    /\ messagesReceived = n_exe
    /\ messagesSent # messagesReceived

\* C6: every offer delivered is answered by exactly one launchTasks call for
\* its id, in delivery order, carrying exactly one task if fewer than n_exe
\* tasks were launched before it and no earlier task went to its host, and
\* no task otherwise.
C6_EveryOfferResolved ==
    /\ Len(launchCalls) = Len(offered)
    /\ \A i \in DOMAIN offered :
        /\ launchCalls[i].offer_id = offered[i].id
        /\ \A j \in DOMAIN offered : offered[j].id = offered[i].id => j = i
        /\ LET before == AcceptedBefore(i)
               accept == /\ Cardinality(before) < n_exe
                         /\ offered[i].hostname \notin {offered[j].hostname : j \in before}
           IN Len(launchCalls[i].tasks) = IF accept THEN 1 ELSE 0

\* C6 witness: offers were delivered of which one was accepted and a later
\* one declined.
C6_Witness ==
    \E i \in Accepted, j \in Declined : i < j

\* C7: a stop call made by frameworkMessage comes right after a completed
\* orchestration, which is the only one before it, and every completed
\* orchestration is followed by the stop call of frameworkMessage.
C7_StopAfterOrchestrate ==
    /\ \A i \in StopsOfCallback :
        /\ i > 1
        /\ control[i - 1].op = "orchestrate"
        /\ Cardinality({k \in Orchestrations : k < i}) = 1
    /\ \A i \in Orchestrations :
        i + 1 \in StopsOfCallback

\* C7 witness: frameworkMessage has issued the stop call.
C7_Witness == StopsOfCallback # {}

\* The host of the offer that task task_id was launched for.
HostOfTask(task_id) ==
    {offered[i].hostname : i \in {k \in Accepted : launchCalls[k].tasks[1].task_id = task_id}}

\* C8: when statusUpdate handles TASK_FINISHED of task t with telemetry
\* ip_addr = A, the record created for t's own offer has IP A and the fixed
\* worker port afterwards.
C8_TelemetryRoundTrip ==
    [][ \A t \in DOMAIN taskData, A \in IpAddrs :
          (statusUpdate(t, "TASK_FINISHED", dumps(Telemetry(A))) /\ proc' = "running")
          => \A h \in HostOfTask(t) :
                /\ h \in DOMAIN executors'
                /\ executors'[h].ip_addr = A
                /\ executors'[h].port = DEFAULT_PORT ]_vars

\* C8 witness: two offers were accepted, and the telemetry of one task has
\* reached its own record while the other record is still unset.
C8_Witness ==
    \E i, j \in Accepted :
        /\ executors[offered[i].hostname].ip_addr \in IpAddrs
        /\ executors[offered[i].hostname].port = DEFAULT_PORT
        /\ executors[offered[j].hostname].ip_addr = None
        /\ \E m \in Range(fwSent) : m.slave_id = offered[i].slave_id

\* The hosts that were offered so far.
OfferedHosts == {offered[i].hostname : i \in DOMAIN offered}

\* Every task the scheduler launched has sent its TASK_FINISHED update.
AllReported ==
    \A t \in DOMAIN taskData : t \in DOMAIN thread /\ thread[t] = "finished"

\* C9: under the reliable driver, once offers of n_exe distinct hosts were
\* delivered and every launched task has reported TASK_FINISHED with its
\* telemetry, eventually exactly n_exe tasks are launched, exactly n_exe
\* launch-service messages are sent, the orchestration has run once and the
\* stop call of frameworkMessage was issued.
C9_EndToEnd ==
    (Cardinality(OfferedHosts) >= n_exe /\ AllReported)
    ~> (/\ tasksLaunched = n_exe
        /\ messagesSent = n_exe
        /\ Len(fwSent) = n_exe
        /\ Cardinality(Orchestrations) = 1
        /\ StopsOfCallback # {}
        /\ proc = "exited"
        /\ exitStatus = 0)

\* C9 witness: n_exe = MaxNExe hosts were offered, every task reported, all
\* acknowledgements came in and the orchestration ran and the driver stopped.
C9_Witness ==
    /\ n_exe = MaxNExe
    /\ Cardinality(OfferedHosts) >= n_exe
    /\ AllReported
    /\ messagesReceived = n_exe
    /\ Cardinality(DOMAIN spawned) = n_exe
    /\ Orchestrations # {}
    /\ StopsOfCallback # {}

\* No driver thread is inside a callback.
AllIdle == \A i \in Threads : cb[i].pc = "idle"

\* C10: callbacks that run at the same time leave the state some serial
\* order of them would: no launch beyond n_exe, no task id given twice, and
\* no counter update lost (once every callback has returned, tasksLaunched
\* counts the launched tasks, and tasksFinished and messagesSent count the
\* launch-service messages sent).
C10_Serializable ==
    /\ Cardinality(Accepted) <= n_exe
    /\ \A i, j \in Accepted :
        launchCalls[i].tasks[1].task_id = launchCalls[j].tasks[1].task_id => i = j
    /\ AllIdle =>
        /\ tasksLaunched = Cardinality(Accepted)
        /\ proc = "running" => (tasksFinished = Len(fwSent) /\ messagesSent = Len(fwSent))

\* C11: the orchestration is one-shot.  Whatever acknowledgements arrive, the
\* Orchestrator is invoked at most once and the callback stops the driver at
\* most once, and an acknowledgement that arrives when messagesReceived has
\* already reached n_exe starts no orchestration, stops nothing and is not
\* fatal.
C11_OneShot ==
    [][ /\ Cardinality(Orchestrations') <= 1
        /\ Cardinality(StopsOfCallback') <= 1
        /\ (messagesReceived >= n_exe /\ messagesReceived' = messagesReceived + 1)
            => UNCHANGED <<control, proc, exitStatus>> ]_vars

\* C11 witness: the orchestration ran once and an acknowledgement beyond
\* n_exe was handled after it.
C11_Witness ==
    /\ Cardinality(Orchestrations) = 1
    /\ Cardinality(StopsOfCallback) = 1
    /\ messagesReceived > n_exe
    /\ proc = "stopped"

\* C12: at the step that starts the orchestration every launched executor
\* has had an acknowledgement of its own delivered to the scheduler (the
\* claim as stated; acknowledgements are counted, not told apart).
C12_EveryExecutorAcked ==
    [][ (Orchestrations' # Orchestrations)
        => \A h \in DOMAIN executors' : executors'[h].slave_id \in ackedSlaves' ]_vars

\* C13: the executor list of every orchestration holds exactly n_exe URIs,
\* one for each host with a record (the claim as stated; repeated
\* TASK_FINISHED updates reach the checkpoint with fewer launched hosts).
C13_ExactlyNExeUris ==
    \A i \in Orchestrations :
        /\ DOMAIN control[i].exe_list = DOMAIN executors
        /\ Cardinality(DOMAIN control[i].exe_list) = n_exe

\* C14: a status update whose state is not TASK_FINISHED changes nothing:
\* the counters, the task map and the executor records keep their values, no
\* framework message is sent and the process goes on.
C14_NonFinishedIsNoop ==
    [][ \A t \in DOMAIN taskData, state \in TaskStates \ {"TASK_FINISHED"} :
            statusUpdate(t, state, ProgressNote)
                => /\ UNCHANGED <<n_exe, tasksLaunched, tasksFinished, messagesSent,
                                  messagesReceived, taskData, executors>>
                   /\ fwSent' = fwSent
                   /\ UNCHANGED <<control, proc, exitStatus, offered, launchCalls>> ]_vars

\* C14 witness: a running scheduler with a launched task whose record is
\* still without address; an update of any other state for it is delivered
\* next to a state in which TASK_FINISHED was counted and a message sent.
C14_Witness ==
    /\ proc = "running"
    /\ tasksLaunched = 2
    /\ tasksFinished = 1
    /\ Len(fwSent) = 1
    /\ \E h \in DOMAIN executors : executors[h].ip_addr = None

\* C15: task ids are unique and grow with the launches: the k-th accepted
\* offer (k from 0) gets the id str(k), and the ids of the task map are
\* exactly str(0) .. str(tasksLaunched - 1).
C15_TaskIdsMonotonic ==
    /\ \A i \in Accepted :
        launchCalls[i].tasks[1].task_id = str(Cardinality(AcceptedBefore(i)))
    /\ \A i, j \in Accepted :
        launchCalls[i].tasks[1].task_id = launchCalls[j].tasks[1].task_id => i = j
    /\ DOMAIN taskData = {str(k) : k \in 0..(tasksLaunched - 1)}
    /\ \A h \in DOMAIN executors : executors[h].task_id \in DOMAIN taskData

\* C15 witness: two offers were accepted with a declined one between them.
C15_Witness ==
    /\ tasksLaunched = 2
    /\ \E i, k \in Accepted, j \in Declined : i < j /\ j < k

\* C16: the address of an executor record is populated exactly once.  A
\* record is created without address, only a TASK_FINISHED update gives it
\* one, and once it has one no later callback changes the record or passes
\* through the assignments of statusUpdate for it again (every pass ends with
\* a launch-service message to the record's slave).  This is the claim as
\* stated; a TASK_FINISHED update delivered again writes the record again.
C16_PopulatedOnce ==
    [][ \A h \in DOMAIN executors' :
            /\ h \notin DOMAIN executors
                => (executors'[h].ip_addr = None /\ executors'[h].port = None)
            /\ (h \in DOMAIN executors /\ executors'[h] # executors[h])
                => tasksFinished' = tasksFinished + 1
            /\ (h \in DOMAIN executors /\ executors[h].ip_addr # None)
                => /\ executors'[h] = executors[h]
                   /\ Len(fwSent') > Len(fwSent)
                        => fwSent'[Len(fwSent')].slave_id # executors[h].slave_id ]_vars

\* The states of the status updates the run_task thread of a task has sent.
SentStates(t) == [i \in DOMAIN statusSent[t] |-> statusSent[t][i].state]

\* C17: launchTask returns before any update is sent, and the thread it
\* started sends TASK_RUNNING first and TASK_FINISHED second and nothing
\* else: a thread that has ended has sent exactly these two (the claim as
\* stated; the call of get_telemetry ends the thread after TASK_RUNNING).
C17_RunningThenFinished ==
    \A t \in DOMAIN thread :
        /\ thread[t] = "started" => SentStates(t) = <<>>
        /\ \E n \in 0..2 : SentStates(t) = SubSeq(<<"TASK_RUNNING", "TASK_FINISHED">>, 1, n)
        /\ thread[t] \in {"finished", "died"}
            => SentStates(t) = <<"TASK_RUNNING", "TASK_FINISHED">>

\* C18: messagesSent is the number of launch-service messages handed to the
\* driver (the claim as stated; the counter is incremented before the payload
\* is parsed).
C18_SentCountsMessages == messagesSent = Len(fwSent)

\* C19: under the reliable driver (one TASK_FINISHED per task, one
\* acknowledgement per launch-service message, nothing delivered twice)
\* messagesReceived <= messagesSent <= tasksLaunched <= n_exe in every
\* state, no callback raises and the process never exits with status 1.
C19_CounterChain ==
    /\ messagesReceived <= messagesSent
    /\ messagesSent <= tasksLaunched
    /\ tasksLaunched <= n_exe
    /\ proc # "aborted"
    /\ proc = "exited" => exitStatus = 0

\* C19 witness: all MaxNExe acknowledgements were delivered, the checkpoint
\* found the counts equal and the process ended with status 0.
C19_Witness ==
    /\ n_exe = MaxNExe
    /\ messagesReceived = n_exe
    /\ messagesSent = n_exe
    /\ tasksLaunched = n_exe
    /\ proc = "exited"
    /\ exitStatus = 0

\* C20: every record handed to the Orchestrator has its address: the IP of a
\* telemetry and the worker port (the claim as stated; with a TASK_FINISHED
\* update counted twice the checkpoint is passed while a record is unset).
C20_AddressesSetAtHandoff ==
    \A i \in Orchestrations :
        \A h \in DOMAIN control[i].exe_list :
            /\ control[i].exe_list[h][1] \in IpAddrs
            /\ control[i].exe_list[h][2] = DEFAULT_PORT

====
